---------------------------- MODULE Spec2Model ----------------------------
(* N-Queens as a binary CSP: NQueensCSP (src/NQueensCSP.py).               *)
(* State of one solve_nqueens run: the solver object's domains and         *)
(* constraints, the AC3 work queue, the shared assignment dict, the stack   *)
(* of _backtrack activations and the value travelling back up the stack.   *)
EXTENDS Integers, Sequences, FiniteSets

VARIABLES domains, constraints, queue, ac3_result, assignment, stack, result, output, pc

vars == <<domains, constraints, queue, ac3_result, assignment, stack, result, output, pc>>

(* ------------------------------ bounds --------------------------------- *)
\* largest board size given to read_input
MaxN == 8
\* largest board size when the domains are drawn from all ascending sub-lists
MaxDomN == 3
\* largest board size for the search with optional heuristics
MaxAnyN == 4

(* ------------------------------ helpers -------------------------------- *)
Abs(x) == IF x < 0 THEN -x ELSE x

\* Python None / a returned object
None == <<>>
Some(x) == <<x>>

\* len(self.domains)
N == Cardinality(DOMAIN domains)

\* range(n)
Range(n) == 0 .. (n - 1)

\* list(range(n))
RangeList(n) == [k \in 1 .. n |-> k - 1]

\* the empty dict {}
EmptyDict == [v \in {} |-> 0]

\* the ascending list holding the members of S
AscList(S) == CHOOSE s \in [1 .. Cardinality(S) -> S] :
                 \A a, b \in 1 .. Cardinality(S) : a < b => s[a] < s[b]

\* every list read_input's domain can shrink to by removals
SubLists(n) == {AscList(S) : S \in SUBSET Range(n)}

\* [(i, j) for i in range(n) for j in range(n) if i != j]
AllConstraints(n) ==
    [k \in 1 .. n * (n - 1) |->
        LET i == (k - 1) \div (n - 1)
            r == (k - 1) % (n - 1)
            j == IF r < i THEN r ELSE r + 1
        IN  <<i, j>>]

\* d[variable] = value
DictSet(d, variable, value) ==
    [v \in (DOMAIN d) \cup {variable} |-> IF v = variable THEN value ELSE d[v]]

\* del d[variable]
DictDel(d, variable) == [v \in (DOMAIN d) \ {variable} |-> d[v]]

(* --------------------------- is_consistent ----------------------------- *)
\* mutant: the diagonal test compares against the signed column distance
is_consistent_signed(variable, value, assign) ==
    \A var \in DOMAIN assign :
        ~ (assign[var] = value \/ Abs(assign[var] - value) = var - variable)

\* mutant: only the diagonal test
is_consistent_diag(variable, value, assign) ==
    \A var \in DOMAIN assign :
        ~ (Abs(assign[var] - value) = Abs(var - variable))

\* mutant: only the row test
is_consistent_rows(variable, value, assign) ==
    \A var \in DOMAIN assign : ~ (assign[var] = value)

is_consistent(variable, value, assign) ==
    \A var \in DOMAIN assign :
        ~ (assign[var] = value \/ Abs(assign[var] - value) = Abs(var - variable))

(* ---------------------- select_unassigned_variable --------------------- *)
unassigned_vars(assign) == {var \in Range(N) : var \notin DOMAIN assign}

\* tuple order of the key (len(self.domains[var]), -var)
KeyLess(a, b) ==
    \/ Len(domains[a]) < Len(domains[b])
    \/ (Len(domains[a]) = Len(domains[b]) /\ -a < -b)

\* mutant: key (len(self.domains[var]), var)
select_unassigned_variable_lowest(assign) ==
    CHOOSE var \in unassigned_vars(assign) :
        \A other \in unassigned_vars(assign) \ {var} :
            \/ Len(domains[var]) < Len(domains[other])
            \/ (Len(domains[var]) = Len(domains[other]) /\ var < other)

select_unassigned_variable(assign) ==
    CHOOSE var \in unassigned_vars(assign) :
        \A other \in unassigned_vars(assign) \ {var} : KeyLess(var, other)

(* ------------------------- order_domain_values ------------------------- *)
lcv_score(variable, assign, value) ==
    Cardinality({p \in {<<nv, k>> : nv \in Range(N), k \in 1 .. N} :
        /\ p[1] # variable
        /\ p[1] \notin DOMAIN assign
        /\ p[2] \in 1 .. Len(domains[p[1]])
        /\ is_consistent(p[1], domains[p[1]][p[2]], DictSet(assign, variable, value))})

\* sorted(..., key=lcv_score, reverse=True): descending score, equal scores
\* keep their domain order
order_domain_values(variable, assign) ==
    LET dom == domains[variable]
        score(p) == lcv_score(variable, assign, dom[p])
        before(q, p) == score(q) > score(p) \/ (score(q) = score(p) /\ q < p)
        rank(p) == Cardinality({q \in 1 .. Len(dom) : before(q, p)})
    IN  [k \in 1 .. Len(dom) |-> dom[CHOOSE p \in 1 .. Len(dom) : rank(p) = k - 1]]

(* ------------------------------- revise -------------------------------- *)
\* the non-attack predicate between (i, vi) and (j, vj)
Compatible(i, vi, j, vj) == vi # vj /\ Abs(vi - vj) # Abs(i - j)

\* the condition of line 74 under which val_i is removed
revise_removes(val_i, var_j) ==
    \A a \in 1 .. Len(domains[var_j]) :
        ~ (\E b \in 1 .. Len(domains[var_j]) : val_i = domains[var_j][b])

\* mutant: the loop walks the live list instead of the copy [:], so the value
\* that slides into a removed slot is skipped
RECURSIVE revise_live(_, _, _)
revise_live(dom, p, var_j) ==
    IF p > Len(dom) THEN dom
    ELSE IF revise_removes(dom[p], var_j)
         THEN revise_live(SubSeq(dom, 1, p - 1) \o SubSeq(dom, p + 1, Len(dom)), p + 1, var_j)
         ELSE revise_live(dom, p + 1, var_j)

revise_domain_live(var_i, var_j) == revise_live(domains[var_i], 1, var_j)

\* mutant: a value is removed when no value of var_j is compatible with it
revise_domain_full(var_i, var_j) ==
    SelectSeq(domains[var_i],
              LAMBDA val_i : \E b \in 1 .. Len(domains[var_j]) :
                                 Compatible(var_i, val_i, var_j, domains[var_j][b]))

\* self.domains[var_i] when revise(var_i, var_j) returns
revise_domain(var_i, var_j) ==
    SelectSeq(domains[var_i], LAMBDA val_i : ~ revise_removes(val_i, var_j))

\* the flag revise(var_i, var_j) returns
revise(var_i, var_j) == revise_domain(var_i, var_j) # domains[var_i]

(* -------------------------------- AC3 ---------------------------------- *)
\* the arcs lines 95-97 append after var_i was revised against var_j
requeue(var_i, var_j) ==
    LET sel == SelectSeq(constraints, LAMBDA c : c[1] # var_j)
    IN  [k \in 1 .. Len(sel) |-> <<sel[k][1], var_i>>]

\* one pass of the while loop of AC3, or its return when the queue is empty
AC3Step ==
    /\ pc \in {"AC3", "AC3_again"}
    /\ LET returned == IF pc = "AC3" THEN "AC3_returned" ELSE "AC3_again_returned"
       IN  IF queue = <<>>
           THEN /\ ac3_result' = "True"
                /\ pc' = returned
                /\ UNCHANGED <<domains, queue>>
           ELSE LET var_i == Head(queue)[1]
                    var_j == Head(queue)[2]
                    dom_i == revise_domain(var_i, var_j)
                IN  /\ domains' = [domains EXCEPT ![var_i] = dom_i]
                    /\ IF revise(var_i, var_j)
                       THEN IF dom_i = <<>>
                            THEN /\ ac3_result' = "False"
                                 /\ pc' = returned
                                 /\ queue' = Tail(queue)
                            ELSE /\ queue' = Tail(queue) \o requeue(var_i, var_j)
                                 /\ UNCHANGED <<ac3_result, pc>>
                       ELSE /\ queue' = Tail(queue)
                            /\ UNCHANGED <<ac3_result, pc>>
    /\ UNCHANGED <<constraints, assignment, stack, result, output>>

\* a second call of AC3 on the domains the first call left
AC3Again ==
    /\ pc = "AC3_returned"
    /\ ac3_result = "True"
    /\ queue' = constraints
    /\ ac3_result' = "pending"
    /\ pc' = "AC3_again"
    /\ UNCHANGED <<domains, constraints, assignment, stack, result, output>>

(* --------------------------- solve_nqueens ----------------------------- *)
\* mutant: the search is started whatever AC3 returned
AfterAC3_always ==
    /\ pc = "AC3_returned"
    /\ assignment' = EmptyDict
    /\ pc' = "call"
    /\ UNCHANGED <<domains, constraints, queue, ac3_result, stack, result, output>>

\* line 140: search when AC3 returned True, else line 151
AfterAC3 ==
    /\ pc = "AC3_returned"
    /\ IF ac3_result = "True"
       THEN /\ assignment' = EmptyDict
            /\ pc' = "call"
            /\ UNCHANGED output
       ELSE /\ output' = "No solution found."
            /\ pc' = "done"
            /\ UNCHANGED assignment
    /\ UNCHANGED <<domains, constraints, queue, ac3_result, stack, result>>

\* lines 142-149: backtracking_search returned to solve_nqueens
Finish ==
    /\ pc = "ret"
    /\ stack = <<>>
    /\ output' = IF result = None THEN "No solution found" ELSE "Solution found"
    /\ pc' = "done"
    /\ UNCHANGED <<domains, constraints, queue, ac3_result, assignment, stack, result>>

(* ----------------------------- _backtrack ------------------------------ *)
Frame(variable, ordered_values) ==
    [variable |-> variable, ordered_values |-> ordered_values, idx |-> 1]

Top == stack[Len(stack)]

Pop == SubSeq(stack, 1, Len(stack) - 1)

\* lines 110-115: entry of a call of _backtrack
Call ==
    /\ pc = "call"
    /\ IF Cardinality(DOMAIN assignment) = N
       THEN /\ result' = Some(assignment)
            /\ pc' = "ret"
            /\ UNCHANGED stack
       ELSE LET variable == select_unassigned_variable(assignment)
            IN  /\ stack' = Append(stack, Frame(variable, order_domain_values(variable, assignment)))
                /\ pc' = "loop"
                /\ UNCHANGED result
    /\ UNCHANGED <<domains, constraints, queue, ac3_result, assignment, output>>

\* entry of a call of _backtrack with the heuristics optional: the variable is
\* any unassigned one (the MRV choice included) and the values are tried in
\* LCV order, in domain order or in reversed domain order, chosen per call
CallAny ==
    /\ pc = "call"
    /\ IF Cardinality(DOMAIN assignment) = N
       THEN /\ result' = Some(assignment)
            /\ pc' = "ret"
            /\ UNCHANGED stack
       ELSE /\ \E variable \in unassigned_vars(assignment) :
                 LET dom == domains[variable]
                     reversed == [k \in 1 .. Len(dom) |-> dom[Len(dom) + 1 - k]]
                 IN  \E ordered_values \in {order_domain_values(variable, assignment), dom, reversed} :
                         stack' = Append(stack, Frame(variable, ordered_values))
            /\ pc' = "loop"
            /\ UNCHANGED result
    /\ UNCHANGED <<domains, constraints, queue, ac3_result, assignment, output>>

\* lines 117-121 and 131: the head of the for loop of the running call
Loop ==
    /\ pc = "loop"
    /\ IF Top.idx > Len(Top.ordered_values)
       THEN /\ result' = None
            /\ stack' = Pop
            /\ pc' = "ret"
            /\ UNCHANGED assignment
       ELSE LET value == Top.ordered_values[Top.idx]
            IN  IF is_consistent(Top.variable, value, assignment)
                THEN /\ assignment' = DictSet(assignment, Top.variable, value)
                     /\ pc' = "call"
                     /\ UNCHANGED <<stack, result>>
                ELSE /\ stack' = [stack EXCEPT ![Len(stack)].idx = @ + 1]
                     /\ UNCHANGED <<assignment, result, pc>>
    /\ UNCHANGED <<domains, constraints, queue, ac3_result, output>>

\* mutant: the entry is left in the assignment after a failed recursive call
Return_keep ==
    /\ pc = "ret"
    /\ stack # <<>>
    /\ IF result # None
       THEN /\ stack' = Pop
            /\ UNCHANGED <<assignment, pc>>
       ELSE /\ stack' = [stack EXCEPT ![Len(stack)].idx = @ + 1]
            /\ pc' = "loop"
            /\ UNCHANGED assignment
    /\ UNCHANGED <<domains, constraints, queue, ac3_result, result, output>>

\* mutant: the result of the first recursive call is returned even when None
Return_first ==
    /\ pc = "ret"
    /\ stack # <<>>
    /\ IF result # None
       THEN /\ stack' = Pop
            /\ UNCHANGED <<assignment, pc>>
       ELSE /\ assignment' = DictDel(assignment, Top.variable)
            /\ stack' = Pop
            /\ UNCHANGED pc
    /\ UNCHANGED <<domains, constraints, queue, ac3_result, result, output>>

\* lines 123-128: the recursive call returned to the running for loop
Return ==
    /\ pc = "ret"
    /\ stack # <<>>
    /\ IF result # None
       THEN /\ stack' = Pop
            /\ UNCHANGED <<assignment, pc>>
       ELSE /\ assignment' = DictDel(assignment, Top.variable)
            /\ stack' = [stack EXCEPT ![Len(stack)].idx = @ + 1]
            /\ pc' = "loop"
    /\ UNCHANGED <<domains, constraints, queue, ac3_result, result, output>>

(* --------------------------- specifications ---------------------------- *)
\* the solver after read_input built domains and constraints for n
InitFor(n, doms) ==
    /\ domains = doms
    /\ constraints = AllConstraints(n)
    /\ queue = AllConstraints(n)
    /\ ac3_result = "pending"
    /\ assignment = EmptyDict
    /\ stack = <<>>
    /\ result = None
    /\ output = ""
    /\ pc = "AC3"

Init == \E n \in 1 .. MaxN : InitFor(n, [i \in Range(n) |-> RangeList(n)])

Next == AC3Step \/ AfterAC3 \/ Call \/ Loop \/ Return \/ Finish

Spec == Init /\ [][Next]_vars

\* the same solve started on any domains obtained by removals
InitDom == \E n \in 1 .. MaxDomN : \E doms \in [Range(n) -> SubLists(n)] : InitFor(n, doms)

SpecDom == InitDom /\ [][Next]_vars

\* AC3 called twice in a row
NextTwice == AC3Step \/ AC3Again

SpecTwice == InitDom /\ [][NextTwice]_vars

\* the solve with the heuristics optional at every call
InitAny == \E n \in 1 .. MaxAnyN : InitFor(n, [i \in Range(n) |-> RangeList(n)])

NextAny == AC3Step \/ AfterAC3 \/ CallAny \/ Loop \/ Return \/ Finish

SpecAny == InitAny /\ [][NextAny]_vars

\* backtracking_search called directly on any domains
InitSearch ==
    \E n \in 1 .. MaxDomN : \E doms \in [Range(n) -> SubLists(n)] :
        /\ domains = doms
        /\ constraints = AllConstraints(n)
        /\ queue = <<>>
        /\ ac3_result = "pending"
        /\ assignment = EmptyDict
        /\ stack = <<>>
        /\ result = None
        /\ output = ""
        /\ pc = "call"

NextSearch == Call \/ Loop \/ Return \/ Finish

SpecSearch == InitSearch /\ [][NextSearch]_vars

(* ------------------- the search as a recursive function ---------------- *)
RECURSIVE backtrack(_), try_values(_, _, _, _)

\* the value _backtrack(assign) returns
backtrack(assign) ==
    IF Cardinality(DOMAIN assign) = N
    THEN Some(assign)
    ELSE LET variable == select_unassigned_variable(assign)
         IN  try_values(assign, variable, order_domain_values(variable, assign), 1)

\* the for loop of lines 117-131 from position k of ordered_values
try_values(assign, variable, ordered_values, k) ==
    IF k > Len(ordered_values)
    THEN None
    ELSE IF is_consistent(variable, ordered_values[k], assign)
         THEN LET r == backtrack(DictSet(assign, variable, ordered_values[k]))
              IN  IF r # None THEN r ELSE try_values(assign, variable, ordered_values, k + 1)
         ELSE try_values(assign, variable, ordered_values, k + 1)

(* ------------------------------ properties ----------------------------- *)
\* a is a non-attacking placement of N queens, one per column
IsPlacement(a) ==
    /\ DOMAIN a = Range(N)
    /\ \A i \in Range(N) : a[i] \in Range(N)
    /\ \A i, j \in Range(N) : i # j => (a[i] # a[j] /\ Abs(a[i] - a[j]) # Abs(i - j))

\* some non-attacking placement of N queens exists
SolutionExists == \E a \in [Range(N) -> Range(N)] : IsPlacement(a)

\* the entries the first k activations have committed
Committed(k) == [v \in {stack[m].variable : m \in 1 .. k} |->
                    LET m == CHOOSE m \in 1 .. k : stack[m].variable = v
                    IN  stack[m].ordered_values[stack[m].idx]]

FullDomains == domains = [i \in Range(N) |-> RangeList(N)]

InSearch == pc \in {"call", "loop", "ret"}

\* C1: an assignment returned by the search maps every column of [0,n) to a
\* row of [0,n), with distinct rows and no two queens on a diagonal.
C1_ReturnedAssignmentValid == result # None => IsPlacement(result[1])

C1_Witness == pc = "done" /\ result # None /\ N = 6 /\ output = "Solution found"

\* C2: the full solve finds a valid placement for n = 1, 4, 8 and reports no
\* solution for n = 2, 3.
C2_KnownSizes ==
    pc = "done" =>
        /\ N \in {1, 4, 8} => (result # None /\ IsPlacement(result[1]) /\ output = "Solution found")
        /\ N \in {2, 3} => (result = None /\ output \in {"No solution found", "No solution found."})

C2_Witness == pc = "done" /\ N = 8 /\ result # None

\* C3: with any choice of the next variable and with LCV, domain or reversed
\* domain value order at each call, the search succeeds exactly when a
\* placement exists, returns only valid placements, and so has the
\* success/failure outcome of the MRV/LCV search.
C3_HeuristicIndependent ==
    (pc = "ret" /\ stack = <<>>) =>
        /\ (result # None) <=> SolutionExists
        /\ result # None => IsPlacement(result[1])
        /\ (result # None) <=> (backtrack(EmptyDict) # None)

C3_Witness ==
    /\ pc = "ret" /\ stack = <<>> /\ N = 4 /\ result # None
    /\ result[1] # backtrack(EmptyDict)[1]

\* C4 (as claimed): a revise step of Xi against Xj leaves in Xi's domain
\* exactly the values having a compatible value in Xj's domain under the
\* full non-attack predicate, and leaves Xj's domain unchanged.
C4_ReviseFullPredicate ==
    [][(pc = "AC3" /\ queue # <<>>) =>
         LET var_i == Head(queue)[1]
             var_j == Head(queue)[2]
         IN  /\ domains'[var_i] =
                   SelectSeq(domains[var_i],
                             LAMBDA v : \E b \in 1 .. Len(domains[var_j]) :
                                            Compatible(var_i, v, var_j, domains[var_j][b]))
             /\ domains'[var_j] = domains[var_j]]_vars

\* C5: when AC3 returns False no search is started, no assignment is made
\* and the outcome is no-solution; the search runs only after AC3 returned True.
C5_InfeasibleSkipsSearch ==
    /\ ac3_result = "False" =>
          /\ pc \in {"AC3_returned", "done"}
          /\ stack = <<>> /\ assignment = EmptyDict /\ result = None
          /\ pc = "done" => output = "No solution found."
    /\ (InSearch \/ stack # <<>> \/ result # None \/ assignment # EmptyDict) =>
          (ac3_result = "True" /\ queue = <<>>)

C5_Witness == pc = "done" /\ ac3_result = "False" /\ output = "No solution found." /\ N = 3

\* C6: the variable selected by a call is unassigned at the call, has the
\* smallest domain among the unassigned variables, and is the largest index
\* among the unassigned variables of that smallest size.
C6_MRVSelection ==
    \A k \in 1 .. Len(stack) :
        LET before == {stack[m].variable : m \in 1 .. (k - 1)}
            var == stack[k].variable
        IN  /\ (pc = "loop" /\ k = Len(stack)) => DOMAIN assignment = before
            /\ var \in Range(N) \ before
            /\ \A u \in Range(N) \ before :
                   /\ Len(domains[var]) <= Len(domains[u])
                   /\ Len(domains[var]) = Len(domains[u]) => u <= var

C6_Witness ==
    /\ pc = "loop" /\ Len(stack) = 2 /\ N = 3
    /\ stack[1].variable = 1 /\ stack[2].variable = 2
    /\ Len(domains[0]) = Len(domains[2])

\* C7: a second run of AC3 after a run that returned True removes no value
\* and returns True.
C7_AC3Idempotent ==
    /\ [](pc = "AC3_again_returned" => ac3_result = "True")
    /\ [][pc = "AC3_again" => domains' = domains]_vars

C7_Witness == pc = "AC3_again_returned" /\ queue = <<>> /\ FullDomains /\ N = 3

\* C8: is_consistent against a one-entry assignment is symmetric in the two
\* (variable, value) pairs and equals the non-attack predicate.
C8_ConsistentSymmetric ==
    \A i, j \in Range(N) : \A v, w \in Range(N) :
        i # j =>
            /\ is_consistent(i, v, DictSet(EmptyDict, j, w)) = is_consistent(j, w, DictSet(EmptyDict, i, v))
            /\ is_consistent(i, v, DictSet(EmptyDict, j, w)) = (v # w /\ Abs(v - w) # Abs(i - j))

C8_Witness ==
    /\ pc = "loop" /\ Cardinality(DOMAIN assignment) = 1 /\ N = 4
    /\ Top.idx <= Len(Top.ordered_values)
    /\ \A var \in DOMAIN assignment : assignment[var] # Top.ordered_values[Top.idx]
    /\ ~ is_consistent(Top.variable, Top.ordered_values[Top.idx], assignment)

\* C9: when a call returns failure the assignment holds exactly the entries
\* it held at the call's entry (empty for the root call), and at every point
\* of the search the entries of the assignment are pairwise non-attacking.
C9_UndoOnBacktrack ==
    /\ (pc = "ret" /\ result = None) => assignment = Committed(Len(stack))
    /\ pc = "call" => assignment = Committed(Len(stack))
    /\ pc = "loop" => assignment = Committed(Len(stack) - 1)
    /\ \A i, j \in DOMAIN assignment :
           i # j => Compatible(i, assignment[i], j, assignment[j])

C9_Witness ==
    /\ pc = "ret" /\ result = None /\ Len(stack) = 2 /\ N = 8
    /\ Cardinality(DOMAIN assignment) = 2

\* C10: from read_input's domains every domain stays the full ascending list
\* 0..n-1, AC3 re-enqueues nothing and never returns False.
C10_DomainsNeverShrink ==
    /\ [](FullDomains /\ ac3_result # "False")
    /\ [][(pc = "AC3" /\ queue # <<>>) => queue' = Tail(queue)]_vars

C10_Witness == pc = "done" /\ N = 2 /\ ac3_result = "True" /\ FullDomains /\ result = None

=============================================================================
